---- MODULE Spec2Model ----
(***************************************************************************)
(* The rooms CRUD service (src/unnamed/part_000): five Express handlers,   *)
(* each one call on the Mongoose model Room, over one MongoDB collection.  *)
(*                                                                         *)
(* JSON values are tagged records [t, v]; a request body is a function     *)
(* from field names to JSON values.  The store is assumed reachable and    *)
(* its unique index on roomNumber built: a driver or network failure (the  *)
(* catch blocks' other cause) is not modelled.  Bodies are plain           *)
(* field/value objects (no update operators).                              *)
(*                                                                         *)
(* Spec handles the requests one at a time, over all the inputs.  SpecRace *)
(* keeps several requests in flight, each waiting for its one store call,  *)
(* over the writes that can race.                                          *)
(***************************************************************************)
EXTENDS Integers, Sequences, FiniteSets, TLC

\* ------------------------------------------------------------ bounds
MaxClients == 2     \* requests in flight at once
MaxIds     == 2     \* ObjectIds the driver generates in a run
MaxTime    == 1     \* ticks of the clock behind createdAt / updatedAt

\* ------------------------------------------------------------ JSON values
Null     == [t |-> "null", v |-> "null"]
Num(n)   == [t |-> "num",  v |-> n]
Str(s)   == [t |-> "str",  v |-> s]
Bool(b)  == [t |-> "bool", v |-> b]
Arr(q)   == [t |-> "arr",  v |-> q]
CastError == [t |-> "error", v |-> "CastError"]

\* The numeric strings the inputs use, with the number each parses to.
NumericStrings == ("100" :> 100) @@ ("101" :> 101) @@ ("150" :> 150)

\* The n-th ObjectId, as the 24-hex-digit string stands for it.
Oid(n) == "oid" \o ToString(n)
ObjectIds == {Oid(n) : n \in 1..MaxIds}
\* A path parameter that is no ObjectId.
Malformed == "abc"

\* ------------------------------------------------------------ roomSchema
RequiredPaths == {"roomNumber", "type", "price", "capacity", "floor"}
StringPaths   == {"roomNumber", "type", "description"}
NumberPaths   == {"price", "capacity", "floor"}
BooleanPaths  == {"isAvailable"}
ArrayPaths    == {"amenities"}
SchemaPaths   == StringPaths \cup NumberPaths \cup BooleanPaths \cup ArrayPaths
TypeEnum      == {"single", "double", "suite"}

\* Mongoose's casts of a body value to a path's schema type.
castNumber(x) ==
  CASE x.t = "num"  -> x
    [] x.t = "null" -> Null
    [] x.t = "bool" -> Num(IF x.v THEN 1 ELSE 0)
    [] x.t = "str"  -> IF x.v = "" THEN Null
                       ELSE IF x.v \in DOMAIN NumericStrings
                            THEN Num(NumericStrings[x.v]) ELSE CastError
    [] OTHER        -> CastError

castString(x) ==
  CASE x.t = "str"  -> x
    [] x.t = "null" -> Null
    [] x.t = "num"  -> Str(ToString(x.v))
    [] x.t = "bool" -> Str(IF x.v THEN "true" ELSE "false")
    [] OTHER        -> CastError

castBoolean(x) ==
  CASE x.t = "bool" -> x
    [] x.t = "null" -> Null
    [] x.t = "str"  -> IF x.v \in {"true", "1", "yes"} THEN Bool(TRUE)
                       ELSE IF x.v \in {"false", "0", "no"} THEN Bool(FALSE)
                       ELSE CastError
    [] x.t = "num"  -> IF x.v = 1 THEN Bool(TRUE)
                       ELSE IF x.v = 0 THEN Bool(FALSE) ELSE CastError
    [] OTHER        -> CastError

castArray(x) ==
  CASE x.t = "arr"  -> x
    [] x.t = "null" -> Null
    [] x.t = "str"  -> Arr(<<x.v>>)
    [] OTHER        -> CastError

castObjectId(x) ==
  IF x.t = "str" /\ x.v \in ObjectIds THEN x ELSE CastError

castPath(p, x) ==
  CASE p \in StringPaths  -> castString(x)
    [] p \in NumberPaths  -> castNumber(x)
    [] p \in BooleanPaths -> castBoolean(x)
    [] p \in ArrayPaths   -> castArray(x)
    [] p = "_id"          -> castObjectId(x)
    [] OTHER              -> CastError

\* ------------------------------------------------------------ documents
Without(f, p) == [q \in (DOMAIN f) \ {p} |-> f[q]]
With(f, p, x) == (p :> x) @@ [q \in (DOMAIN f) \ {p} |-> f[q]]

\* The body's schema paths, cast; strict mode drops the paths the schema lacks.
castBody(body) ==
  [p \in (DOMAIN body) \cap (SchemaPaths \cup {"_id"}) |-> castPath(p, body[p])]

castErrors(cb) == {p \in DOMAIN cb : cb[p].t = "error"}

\* new Room(req.body): the cast body, then the defaults of the paths it lacks;
\* oid is the ObjectId the driver generates for a body without _id.
NewRoom(body, oid) ==
  LET cb   == castBody(body)
      good == [p \in (DOMAIN cb) \ castErrors(cb) |-> cb[p]]
  IN  good @@ [_id |-> Str(oid), isAvailable |-> Bool(TRUE), amenities |-> Arr(<<>>)]

\* A required that fails on a null value alone.
requiredFailsNullOnly(doc, p) == p \in DOMAIN doc /\ doc[p].t = "null"

\* required: true fails on a missing or null value, and on an empty string.
requiredFails(doc, p) ==
  \/ p \notin DOMAIN doc
  \/ doc[p].t = "null"
  \/ doc[p].t = "str" /\ doc[p].v = ""

\* enum: [...] fails on a string outside the list.
enumFails(doc) ==
  /\ "type" \in DOMAIN doc
  /\ doc["type"].t = "str"
  /\ doc["type"].v \notin TypeEnum

\* The paths document validation rejects on save().
validationErrors(body, oid) ==
  LET doc == NewRoom(body, oid)
  IN  castErrors(castBody(body))
        \cup {p \in RequiredPaths : requiredFails(doc, p)}
        \cup (IF enumFails(doc) THEN {"type"} ELSE {})

\* The paths the update validators (runValidators: true) reject: only the
\* paths the update sets are validated.
updateErrors(body) ==
  LET cb == castBody(body)
  IN  castErrors(cb)
        \cup {p \in RequiredPaths \cap DOMAIN cb : requiredFails(cb, p)}
        \cup (IF enumFails(cb) THEN {"type"} ELSE {})

\* ------------------------------------------------------------ the collection
VARIABLES
  rooms,     \* the rooms collection, in insertion order
  nextId,    \* how many ObjectIds the driver has generated, plus one
  now,       \* the clock
  last,      \* the request being answered and its response, with the collection
             \* (before) and the deleted identifiers (gone) as the request found them
  reqs,      \* per client: the request whose store call is pending
  deleted,   \* history: the identifiers a DELETE has answered 200 for
  winners,   \* history: per identifier, the DELETEs answered 200 since it was inserted
  sent       \* history: per identifier, the body it was created from, until a PUT
             \* or DELETE succeeds on it

vars == <<rooms, nextId, now, last, reqs, deleted, winners, sent>>

Clients == 1..MaxClients

idsOf(rs) == {rs[i]["_id"].v : i \in DOMAIN rs}
storedIds == idsOf(rooms)
indexIn(rs, id) == CHOOSE i \in DOMAIN rs : rs[i]["_id"].v = id
indexOf(id) == indexIn(rooms, id)

\* The index on _id alone, as without unique: true on roomNumber.
duplicateKeyIdOnly(doc, self) ==
  \E i \in DOMAIN rooms : i # self /\ rooms[i]["_id"] = doc["_id"]

\* The unique index on roomNumber (and the one on _id) refuses doc; self is
\* the position of the document being replaced, 0 for an insert.
duplicateKey(doc, self) ==
  \E i \in DOMAIN rooms :
    /\ i # self
    /\ \/ rooms[i]["_id"] = doc["_id"]
       \/ rooms[i]["roomNumber"] = doc["roomNumber"]

\* A removal that removes nothing, as findById in place of findByIdAndDelete.
RemoveAtNothing(q, i) == q

RemoveAt(q, i) == SubSeq(q, 1, i - 1) \o SubSeq(q, i + 1, Len(q))

\* The filter with available taken for its truthiness: any non-empty string,
\* "false" too, asks for the available rooms.
buildQueryTruthy(q) ==
  (IF "available" \in DOMAIN q
     THEN [isAvailable |-> Bool(q["available"] # "")] ELSE <<>>)
  @@ (IF "type" \in DOMAIN q /\ q["type"] # ""
        THEN [type |-> Str(q["type"])] ELSE <<>>)

\* The filter of GET /rooms, from the query string.
buildQuery(q) ==
  (IF "available" \in DOMAIN q
     THEN [isAvailable |-> Bool(q["available"] = "true")] ELSE <<>>)
  @@ (IF "type" \in DOMAIN q /\ q["type"] # ""
        THEN [type |-> Str(q["type"])] ELSE <<>>)

matches(doc, filter) == \A p \in DOMAIN filter : p \in DOMAIN doc /\ doc[p] = filter[p]

find(filter) == SelectSeq(rooms, LAMBDA d : matches(d, filter))

\* The options with upsert: true, and those without runValidators.
updateOptionsUpsert == [new |-> TRUE, runValidators |-> TRUE, upsert |-> TRUE]

updateOptionsNoValidators == [new |-> TRUE, runValidators |-> FALSE, upsert |-> FALSE]

\* The options of findByIdAndUpdate; upsert is not given, so it is off.
updateOptions == [new |-> TRUE, runValidators |-> TRUE, upsert |-> FALSE]

\* The update applied as a replacement document (overwrite: true).
applyUpdateOverwrite(old, set) == set @@ [_id |-> old["_id"]]

\* The update is applied as $set: the paths it names replace the document's.
applyUpdate(old, set) == set @@ old

\* ------------------------------------------------------------ requests
ValidA ==
  [roomNumber |-> Str("101"), type |-> Str("single"), price |-> Num(100),
   capacity |-> Num(2), floor |-> Num(1)]
ValidB ==
  [roomNumber |-> Num(102), type |-> Str("suite"), price |-> Str("150"),
   isAvailable |-> Bool(FALSE), capacity |-> Num(4), floor |-> Num(3),
   amenities |-> Arr(<<"TV">>), description |-> Str("view")]

PostBodies ==
  {ValidA, ValidB}
    \cup {Without(ValidA, p) : p \in RequiredPaths}
    \cup {With(ValidA, "type", Str("penthouse")), With(ValidA, "price", Str("abc")),
          With(ValidA, "color", Str("blue"))}
    \cup {With(ValidA, "_id", Str(i)) : i \in ObjectIds \cup {Malformed}}

PutBodies ==
  {<<>>, [roomNumber |-> Str("")], [price |-> Num(150), isAvailable |-> Str("no")], [roomNumber |-> Str("102")],
   [type |-> Str("penthouse")], [price |-> Null], [_id |-> Str(Oid(1))]}

Queries ==
  {<<>>, [available |-> "true"], [available |-> "false"],
   [type |-> "suite"], [type |-> ""], [available |-> "true", type |-> "single"]}

PathIds == ObjectIds \cup {Malformed}

None ==
  [method |-> "", id |-> "", body |-> <<>>, query |-> <<>>,
   status |-> 0, message |-> "", data |-> <<>>, before |-> <<>>, gone |-> {}]

NoBody == [none |-> Null]

Idle == [st |-> "idle", method |-> "", id |-> "", body |-> <<>>, sameRoom |-> FALSE]

\* sameRoom (history): the room the request addresses was stored when the
\* request arrived, and has not been inserted again since.
Request(method, id, body) ==
  [st |-> "pending", method |-> method, id |-> id, body |-> body, sameRoom |-> FALSE]

\* res.status(s).json(...): the response to the request.
Respond(method, id, body, query, s, msg, data) ==
  last' = [method |-> method, id |-> id, body |-> body, query |-> query,
           status |-> s, message |-> msg, data |-> data,
           before |-> rooms, gone |-> deleted]

Tick ==
  /\ now < MaxTime
  /\ now' = now + 1
  /\ UNCHANGED <<rooms, nextId, last, reqs, deleted, winners, sent>>

\* app.get('/rooms')
ListRooms(q) ==
  /\ Respond("LIST", "", <<>>, q, 200, "", find(buildQuery(q)))
  /\ UNCHANGED <<rooms, nextId, now, deleted, winners, sent>>

\* app.get('/rooms/:id')
GetRoom(id) ==
  /\ IF castObjectId(Str(id)).t = "error"
       THEN Respond("GET", id, <<>>, <<>>, 500, "Error retrieving room", <<>>)
     ELSE IF id \notin storedIds
       THEN Respond("GET", id, <<>>, <<>>, 404, "Room not found", <<>>)
     ELSE Respond("GET", id, <<>>, <<>>, 200, "", <<rooms[indexOf(id)]>>)
  /\ UNCHANGED <<rooms, nextId, now, deleted, winners, sent>>

\* The identifiers of the rooms created so far: those a response has shown.
createdIds == storedIds \cup deleted

\* app.post('/rooms'): new Room(req.body) draws a fresh ObjectId when the body
\* has no _id; save() validates, stamps and inserts.  A client that sends an
\* _id sends one it has been given (or a malformed one), so that the driver
\* never generates an identifier a client chose first.
PostRoom(body) ==
  /\ IF "_id" \in DOMAIN body
       THEN body["_id"].v \in createdIds \cup {Malformed}
       ELSE nextId <= MaxIds
  /\ nextId' = IF "_id" \in DOMAIN body THEN nextId ELSE nextId + 1
  /\ LET oid == Oid(nextId)
         doc == NewRoom(body, oid) @@ [createdAt |-> Num(now), updatedAt |-> Num(now)]
     IN  IF validationErrors(body, oid) # {} \/ duplicateKey(doc, 0)
           THEN /\ Respond("POST", "", body, <<>>, 500, "Error creating room", <<>>)
                /\ UNCHANGED <<rooms, winners, sent>>
           ELSE /\ rooms' = Append(rooms, doc)
                /\ winners' = [winners EXCEPT ![doc["_id"].v] = 0]
                /\ sent' = [sent EXCEPT ![doc["_id"].v] = body]
                /\ Respond("POST", "", body, <<>>, 201, "", <<doc>>)
  /\ UNCHANGED <<now, deleted>>

\* app.put('/rooms/:id')
PutRoom(id, body) ==
  /\ LET set == castBody(body) @@ [updatedAt |-> Num(now)]
         bad == IF updateOptions.runValidators
                  THEN updateErrors(body) ELSE castErrors(castBody(body))
     IN  IF castObjectId(Str(id)).t = "error" \/ bad # {}
           THEN /\ Respond("PUT", id, body, <<>>, 500, "Error updating room", <<>>)
                /\ UNCHANGED <<rooms, sent>>
         ELSE IF id \notin storedIds /\ ~updateOptions.upsert
           THEN /\ Respond("PUT", id, body, <<>>, 404, "Room not found", <<>>)
                /\ UNCHANGED <<rooms, sent>>
         ELSE IF id \notin storedIds
           THEN /\ rooms' = Append(rooms, set @@ [_id |-> Str(id)])
                /\ Respond("PUT", id, body, <<>>, 200, "", <<set @@ [_id |-> Str(id)]>>)
                /\ UNCHANGED sent
         ELSE LET i   == indexOf(id)
                  doc == applyUpdate(rooms[i], set)
              IN  IF doc["_id"] # rooms[i]["_id"] \/ duplicateKey(doc, i)
                    THEN /\ Respond("PUT", id, body, <<>>, 500, "Error updating room", <<>>)
                         /\ UNCHANGED <<rooms, sent>>
                    ELSE /\ rooms' = [rooms EXCEPT ![i] = doc]
                         /\ sent' = [sent EXCEPT ![id] = NoBody]
                         /\ Respond("PUT", id, body, <<>>, 200, "",
                                    <<IF updateOptions.new THEN doc ELSE rooms[i]>>)
  /\ UNCHANGED <<nextId, now, deleted, winners>>

\* app.delete('/rooms/:id')
DeleteRoom(id) ==
  /\ IF castObjectId(Str(id)).t = "error"
       THEN /\ Respond("DELETE", id, <<>>, <<>>, 500, "Error deleting room", <<>>)
            /\ UNCHANGED <<rooms, deleted, winners, sent>>
     ELSE IF id \notin storedIds
       THEN /\ Respond("DELETE", id, <<>>, <<>>, 404, "Room not found", <<>>)
            /\ UNCHANGED <<rooms, deleted, winners, sent>>
     ELSE /\ rooms' = RemoveAt(rooms, indexOf(id))
          /\ deleted' = deleted \cup {id}
          /\ winners' = [winners EXCEPT ![id] = @ + 1]
          /\ sent' = [sent EXCEPT ![id] = NoBody]
          /\ Respond("DELETE", id, <<>>, <<>>, 200, "Room deleted successfully",
                     <<rooms[indexOf(id)]>>)
  /\ UNCHANGED <<nextId, now>>

\* The response has been sent; the client's slot is free again.
Ack ==
  /\ last # None
  /\ last' = None
  /\ reqs' = [k \in Clients |-> IF reqs[k].st = "done" THEN Idle ELSE reqs[k]]
  /\ UNCHANGED <<rooms, nextId, now, deleted, winners, sent>>

Init ==
  /\ rooms = <<>>
  /\ nextId = 1
  /\ now = 0
  /\ last = None
  /\ reqs = [c \in Clients |-> Idle]
  /\ deleted = {}
  /\ winners = [i \in ObjectIds |-> 0]
  /\ sent = [i \in ObjectIds |-> NoBody]

\* Requests handled one at a time: a handler's one store call is its only
\* effect, and its response is fixed by what that call returned.
Next ==
  \/ last = None /\ UNCHANGED reqs /\ \E q \in Queries : ListRooms(q)
  \/ last = None /\ UNCHANGED reqs /\ \E i \in PathIds : GetRoom(i)
  \/ last = None /\ UNCHANGED reqs /\ \E b \in PostBodies : PostRoom(b)
  \/ last = None /\ UNCHANGED reqs /\ \E i \in PathIds, b \in PutBodies : PutRoom(i, b)
  \/ last = None /\ UNCHANGED reqs /\ \E i \in PathIds : DeleteRoom(i)
  \/ Ack
  \/ last = None /\ Tick

Spec == Init /\ [][Next]_vars

\* ------------------------------------------------------------ requests in flight
\* The writes that race: two creations, a re-creation under a chosen _id, a
\* change of roomNumber and a deletion.
RaceRequests ==
  {Request("POST", "", b) : b \in {ValidA, ValidB, With(ValidA, "_id", Str(Oid(1)))}}
    \cup {Request("PUT", i, [roomNumber |-> Str("102")]) : i \in ObjectIds}
    \cup {Request("DELETE", i, <<>>) : i \in ObjectIds}

\* A request arrives and its handler runs up to the await of its store call.
Receive(c, r) ==
  /\ reqs[c].st = "idle"
  /\ reqs' = [reqs EXCEPT ![c] = [r EXCEPT !.sameRoom = r.id \in storedIds]]
  /\ UNCHANGED <<rooms, nextId, now, last, deleted, winners, sent>>

\* Client c's store call has completed and its handler answers.  An insert of
\* an identifier ends the sameRoom of the requests in flight on it.
Answered(c) ==
  reqs' = [k \in Clients |->
    IF k = c THEN [reqs[c] EXCEPT !.st = "done"]
    ELSE IF Len(rooms') > Len(rooms) /\ reqs[k].id = rooms'[Len(rooms')]["_id"].v
      THEN [reqs[k] EXCEPT !.sameRoom = FALSE]
    ELSE reqs[k]]

Awaiting(c, m) == last = None /\ reqs[c].st = "pending" /\ reqs[c].method = m

NextRace ==
  \/ \E c \in Clients, r \in RaceRequests : Receive(c, r)
  \/ \E c \in Clients : Awaiting(c, "POST") /\ PostRoom(reqs[c].body) /\ Answered(c)
  \/ \E c \in Clients :
       Awaiting(c, "PUT") /\ PutRoom(reqs[c].id, reqs[c].body) /\ Answered(c)
  \/ \E c \in Clients : Awaiting(c, "DELETE") /\ DeleteRoom(reqs[c].id) /\ Answered(c)
  \/ Ack

SpecRace == Init /\ [][NextRace]_vars
\* ------------------------------------------------------------ the claims
\* What the claims speak of, stated on the request and response in last.
docIn(rs, id) == rs[indexIn(rs, id)]

\* The body names a value its path cannot take: one that does not cast, a
\* null or empty required value, a type outside the enumerated set.
rejects(body) ==
  \E p \in (DOMAIN body) \cap (SchemaPaths \cup {"_id"}) :
    LET x == castPath(p, body[p])
    IN  \/ x.t = "error"
        \/ p \in RequiredPaths /\ (x.t = "null" \/ (x.t = "str" /\ x.v = ""))
        \/ p = "type" /\ x.t = "str" /\ x.v \notin TypeEnum

\* The body would leave a room without a required field or with a type outside
\* the enumerated set.
violating(method, body) ==
  \/ method = "POST" /\ \E p \in RequiredPaths : p \notin DOMAIN body
  \/ \E p \in RequiredPaths \cap DOMAIN body :
       LET x == castPath(p, body[p])
       IN  x.t = "null" \/ (x.t = "str" /\ x.v = "")
  \/ /\ "type" \in DOMAIN body
     /\ castString(body["type"]).t = "str"
     /\ castString(body["type"]).v \notin TypeEnum

\* The request would give a room a roomNumber another stored room holds.
takesRoomNumber ==
  /\ last.method \in {"POST", "PUT"}
  /\ "roomNumber" \in DOMAIN last.body
  /\ last.method = "PUT" => last.id \in idsOf(last.before)
  /\ \E i \in DOMAIN last.before :
       /\ last.before[i]["roomNumber"] = castString(last.body["roomNumber"])
       /\ last.method = "PUT" => last.before[i]["_id"].v # last.id

\* Every value of the body is of its path's schema type, and every path is
\* the schema's.
typed(body) ==
  \A p \in DOMAIN body :
    p \in SchemaPaths \cup {"_id"} /\ castPath(p, body[p]) = body[p]

\* C1: GET /rooms/{id} answers 404, and no other status, both when the
\* identifier is well-formed and no stored room has it and when the identifier
\* is not a well-formed key.
C1_GetNotFound ==
  (last.method = "GET" /\ last.id \notin idsOf(last.before)) => last.status = 404

\* C2: no two stored rooms have the same roomNumber, whatever requests are in
\* flight; a POST or PUT that would give a room a roomNumber another stored
\* room holds answers 500 and leaves the collection unchanged.
C2_UniqueRoomNumber ==
  /\ \A i, j \in DOMAIN rooms :
       i # j => rooms[i]["roomNumber"] # rooms[j]["roomNumber"]
  /\ takesRoomNumber => last.status = 500 /\ rooms = last.before

C2_Witness ==
  /\ last.method = "PUT"
  /\ takesRoomNumber
  /\ last.status = 500
  /\ \E c \in Clients : reqs[c].st = "pending" /\ reqs[c].method = "POST"

\* C3, as claimed: PUT /rooms/{id} on a stored room answers 200, every field
\* not in the payload keeps its value, the identifier is unchanged, and every
\* other room is unchanged.
C3_Original ==
  (last.method = "PUT" /\ last.id \in idsOf(last.before)) =>
    LET i   == indexIn(last.before, last.id)
        old == last.before[i]
    IN  /\ last.status = 200
        /\ DOMAIN rooms = DOMAIN last.before
        /\ \A j \in (DOMAIN rooms) \ {i} : rooms[j] = last.before[j]
        /\ rooms[i]["_id"] = old["_id"]
        /\ \A p \in (DOMAIN old) \ (DOMAIN last.body) :
             p \in DOMAIN rooms[i] /\ rooms[i][p] = old[p]

\* The payload of the PUT in last passes the update validators and the unique
\* indexes, and names no other _id.
putAccepted ==
  /\ ~rejects(last.body)
  /\ ~takesRoomNumber
  /\ "_id" \in DOMAIN last.body => last.body["_id"].v = last.id

\* C3, amended: PUT /rooms/{id} on a stored room answers 200 when the payload
\* is accepted, and then changes only the fields supplied (to their cast
\* values) and updatedAt, which does not go back: every other field keeps its
\* value, the identifier is unchanged, every other room is unchanged, and the
\* updated room is the answer.  A payload that is not accepted answers 500
\* and changes nothing.
C3_PutFrame ==
  (last.method = "PUT" /\ last.id \in idsOf(last.before)) =>
    LET i   == indexIn(last.before, last.id)
        old == last.before[i]
    IN  IF putAccepted
          THEN /\ last.status = 200
               /\ DOMAIN rooms = DOMAIN last.before
               /\ \A j \in (DOMAIN rooms) \ {i} : rooms[j] = last.before[j]
               /\ rooms[i]["_id"] = old["_id"]
               /\ DOMAIN rooms[i] = (DOMAIN old) \cup (DOMAIN last.body)
               /\ \A p \in (DOMAIN old) \ ((DOMAIN last.body) \cup {"updatedAt"}) :
                    rooms[i][p] = old[p]
               /\ \A p \in DOMAIN last.body : rooms[i][p] = castPath(p, last.body[p])
               /\ rooms[i]["updatedAt"].v >= old["updatedAt"].v
               /\ last.data = <<rooms[i]>>
          ELSE last.status = 500 /\ rooms = last.before

C3_Witness ==
  /\ last.method = "PUT"
  /\ last.status = 200
  /\ Len(rooms) = 2
  /\ "price" \in DOMAIN last.body
  /\ docIn(rooms, last.id)["price"] # docIn(last.before, last.id)["price"]
  /\ docIn(rooms, last.id)["updatedAt"] # docIn(last.before, last.id)["updatedAt"]

C5_DeletedStaysGone ==
  /\ (last.method = "DELETE" /\ last.id \in idsOf(last.before)) =>
       /\ last.status = 200
       /\ last.data = <<docIn(last.before, last.id)>>
       /\ last.id \notin storedIds
  /\ (last.method \in {"GET", "DELETE"} /\ last.id \in last.gone) => last.status = 404
  /\ (last.method = "PUT" /\ last.id \in last.gone /\ ~rejects(last.body)) =>
       last.status = 404
  /\ (last.method = "POST" /\ last.status = 201) => last.data[1]["_id"].v \notin last.gone

\* The POST body in last has every required field, typed and valid, and
\* collides with no stored room.
validCreate ==
  /\ RequiredPaths \subseteq DOMAIN last.body
  /\ typed(last.body)
  /\ ~rejects(last.body)
  /\ ~takesRoomNumber
  /\ "_id" \in DOMAIN last.body => last.body["_id"].v \notin idsOf(last.before)

\* C6 (for typed payloads): POST /rooms with all required fields valid answers
\* 201 with an identifier no room created before had; GET on a room no PUT or
\* DELETE has touched answers 200 with every sent field as sent, and
\* isAvailable true when it was not sent.
C6_CreateRoundTrip ==
  /\ (last.method = "POST" /\ validCreate) =>
       /\ last.status = 201
       /\ last.data[1]["_id"].v \notin idsOf(last.before) \cup last.gone
  /\ (last.method = "GET" /\ last.id \in ObjectIds /\ sent[last.id] # NoBody
        /\ typed(sent[last.id])) =>
       /\ last.status = 200
       /\ \A p \in DOMAIN sent[last.id] : last.data[1][p] = sent[last.id][p]
       /\ "isAvailable" \notin DOMAIN sent[last.id] =>
            last.data[1]["isAvailable"] = Bool(TRUE)

\* The room matches every filter the query supplies.
passes(doc, q) ==
  /\ ("type" \in DOMAIN q /\ q["type"] # "") => doc["type"].v = q["type"]
  /\ ("available" \in DOMAIN q /\ q["available"] = "true") => doc["isAvailable"] = Bool(TRUE)
  /\ ("available" \in DOMAIN q /\ q["available"] = "false") => doc["isAvailable"] = Bool(FALSE)

\* C7: GET /rooms answers 200 with exactly the stored rooms that match every
\* supplied filter (all of them without a filter, none when none matches) and
\* never modifies the collection.
C7_ListFilter ==
  last.method = "LIST" =>
    /\ last.status = 200
    /\ rooms = last.before
    /\ last.data = SelectSeq(rooms, LAMBDA d : passes(d, last.query))

C7_Witness ==
  /\ last.method = "LIST"
  /\ last.query = [available |-> "false"]
  /\ Len(rooms) = 2
  /\ Len(last.data) = 1

\* C8: POST /rooms without one of roomNumber, type, price, capacity, floor
\* answers 500 with a message, never 201, and adds no room.
C8_MissingRequired ==
  (last.method = "POST" /\ \E p \in RequiredPaths : p \notin DOMAIN last.body) =>
    /\ last.status = 500
    /\ last.message # ""
    /\ rooms = last.before

C8_Witness ==
  /\ last.method = "POST"
  /\ "floor" \notin DOMAIN last.body
  /\ last.status = 500
  /\ Len(rooms) = 1

\* C9, as claimed: PUT and DELETE on a well-formed identifier no stored room
\* has answer 404 and leave the collection unchanged.
C9_Original ==
  (last.method \in {"PUT", "DELETE"} /\ last.id \in ObjectIds
     /\ last.id \notin idsOf(last.before)) =>
    last.status = 404 /\ rooms = last.before

\* C9, amended: on a well-formed identifier no stored room has, DELETE answers
\* 404, PUT answers 404 when its payload passes the update validators and 500
\* when it does not, and the collection is left unchanged in every case.
C9_AbsentTarget ==
  (last.method \in {"PUT", "DELETE"} /\ last.id \in ObjectIds
     /\ last.id \notin idsOf(last.before)) =>
    /\ last.status = IF last.method = "PUT" /\ rejects(last.body) THEN 500 ELSE 404
    /\ rooms = last.before

C9_Witness ==
  /\ last.method = "PUT"
  /\ last.id \in ObjectIds
  /\ last.id \notin idsOf(last.before)
  /\ last.status = 404
  /\ Len(rooms) = 1

\* The request in flight that last answers.
raceReq ==
  IF \E c \in Clients : reqs[c].st = "done"
    THEN reqs[CHOOSE c \in Clients : reqs[c].st = "done"] ELSE Idle

\* C10, as claimed: of the DELETEs in flight on one stored room exactly one
\* answers 200 and the others 404; a PUT in flight on it answers 200 or 404,
\* and never brings a deleted room back.
C10_Original ==
  /\ (last.method = "DELETE" /\ raceReq.sameRoom) =>
       last.status \in {200, 404} /\ winners[last.id] = 1
  /\ (last.method = "PUT" /\ raceReq.sameRoom) =>
       /\ last.status \in {200, 404}
       /\ idsOf(rooms) = idsOf(last.before)

\* C10, amended: of the DELETEs in flight on one stored room exactly one
\* answers 200 and the others 404; a PUT in flight on it answers 404 exactly
\* when a DELETE has removed the room, else 200, or 500 when its payload is
\* refused (here: its roomNumber is held by another room), and never brings a
\* deleted room back.
C10_Races ==
  /\ \A i \in ObjectIds : winners[i] <= 1
  /\ (last.method = "DELETE" /\ raceReq.sameRoom) =>
       last.status \in {200, 404} /\ winners[last.id] = 1
  /\ (last.method = "PUT" /\ raceReq.sameRoom) =>
       /\ last.status = IF last.id \notin idsOf(last.before) THEN 404
                        ELSE IF takesRoomNumber THEN 500 ELSE 200
       /\ last.status = 404 => winners[last.id] = 1
       /\ idsOf(rooms) = idsOf(last.before)

C10_Witness ==
  /\ last.method = "DELETE"
  /\ raceReq.sameRoom
  /\ last.status = 404
====
